---- MODULE Spec2Model ----
(***************************************************************************)
(* Matchmaking and session-lifecycle engine of the rock-paper-scissors     *)
(* server: GameManager (application/matchmaking_service.rs) and GameRoom   *)
(* (application/game_service.rs), with the GameChoice resolver             *)
(* (domain/game.rs).                                                       *)
(*                                                                         *)
(* Every public GameManager operation is run by a task.  An operation is   *)
(* split into steps at the places where the code takes a lock: what a task *)
(* does while it holds one lock (and awaits nothing that can suspend) is   *)
(* one step.  A task is identified with the participant it serves (one     *)
(* connection per participant, whose messages are handled one at a time).  *)
(***************************************************************************)
EXTENDS Integers, Sequences, FiniteSets, TLC

\* ---------------------------------------------------------------- bounds
NumPlayers == 3
MaxRooms == 2
MaxOps == 4

\* ------------------------------------------------------ program constants
max_rounds == 3
min_players == 2
max_players == 2
WinThreshold == 2
None == 0

Players == 1..NumPlayers
RoomIds == 1..MaxRooms
Choices == {"Rock", "Paper", "Scissors"}
EmptyMap == [x \in {} |-> 0]

VARIABLES
  waiting_queue,   \* GameManager.waiting_queue: Vec<Arc<Player>>
  rooms,           \* key set of GameManager.rooms
  player_rooms,    \* GameManager.player_rooms: participant -> room id or None
  next_room,       \* number of room ids generated so far (Uuid::new_v4)
  room,            \* the GameRoom behind each room id (Arc<Mutex<GameRoom>>)
  events,          \* per room: the messages broadcast_to_all has sent, in order
  closed,          \* the participants whose outbound receiver has been dropped
  room_lock,       \* per room: the task holding its Mutex, or None
  rooms_readers,   \* tasks holding the read lock of GameManager.rooms
  queue_lock,      \* the task holding the waiting_queue Mutex, or None
  pc,              \* per task: the step it is at
  waiting_player,  \* per task: find_match's popped participant
  room_id,         \* per task: the room id / room Arc it holds
  stats_pc,        \* the monitoring task: the step of get_stats it is at
  visited,         \* the monitoring task: rooms get_stats has already counted
  active_games,    \* the monitoring task: get_stats's counter
  playing_at_call, \* history: the number of Playing sessions in rooms when the
                   \* running get_stats was called (0 when none is running)
  ret,             \* what the last step returned and to whom, NoReturn if it returned nothing
  ops,             \* number of GameManager operations called since the initial state
  abandoned_by,    \* history, per room: the participant whose remove_player took
                   \* the room out of rooms before any move was submitted, or None
  call_kind,       \* history, per task: what the registry held for the caller
                   \* when its running submit_move or remove_player was called
  departed,        \* history: the participant whose remove_player is the latest
                   \* call, if no other call was in flight when it was called;
                   \* None otherwise
  calls            \* history: the operations called so far and their callers, in
                   \* order, while the matchmaker started empty and every call was
                   \* made with no other call in flight; Untracked otherwise

registry == <<waiting_queue, rooms, player_rooms, next_room>>
sessions == <<room, events, closed>>
locks == <<room_lock, rooms_readers, queue_lock>>
locals == <<pc, waiting_player, room_id>>
monitor == <<stats_pc, visited, active_games, playing_at_call>>

history == <<abandoned_by, call_kind, departed, calls>>

vars == <<registry, sessions, locks, locals, monitor, ret, ops, history>>

\* ------------------------------------------------------------ map helpers
\* HashMap::insert: adds the key or replaces its value
Insert(f, k, v) == [x \in (DOMAIN f) \cup {k} |-> IF x = k THEN v ELSE f[x]]

SeqRange(s) == {s[i] : i \in DOMAIN s}

\* scores.values().max().unwrap_or(&0)
MaxScore(scores) ==
  IF DOMAIN scores = {} THEN 0
  ELSE CHOOSE m \in {scores[p] : p \in DOMAIN scores} :
         \A p \in DOMAIN scores : scores[p] <= m

\* ------------------------------------------------------------- GameChoice
\* mutant: any move beats any other move
beats_any_other(a, b) == a # b

\* mutant: the cycle run the other way round
beats_reversed(a, b) ==
  \/ (a = "Scissors" /\ b = "Rock")
  \/ (a = "Rock" /\ b = "Paper")
  \/ (a = "Paper" /\ b = "Scissors")

beats(a, b) ==
  \/ (a = "Rock" /\ b = "Scissors")
  \/ (a = "Paper" /\ b = "Rock")
  \/ (a = "Scissors" /\ b = "Paper")

\* --------------------------------------------------------------- GameRoom
GameRoom_new ==
  [players |-> <<>>, current_round |-> 1, scores |-> EmptyMap,
   moves |-> EmptyMap, status |-> "Waiting"]

\* mutant: the capacity check is off by one
add_player_accepts_one_more(g) == Len(g.players) <= max_players

add_player_accepts(g) == Len(g.players) < max_players

add_player(g, p) ==
  IF ~add_player_accepts(g) THEN g
  ELSE [g EXCEPT !.scores = Insert(@, p, 0),
                 !.players = Append(@, p),
                 !.status = IF Len(g.players) + 1 >= min_players
                            THEN "Playing" ELSE @]

\* mutant: a move is taken from anyone while the room is Playing
room_submit_accepts_anyone(g, p) == g.status = "Playing"

\* GameRoom::submit_move: the two early returns
room_submit_accepts(g, p) ==
  /\ g.status = "Playing"
  /\ \E i \in DOMAIN g.players : g.players[i] = p

\* mutant: a move already recorded is kept
room_submit_move_first_wins(g, p, c) ==
  IF room_submit_accepts(g, p) /\ p \notin DOMAIN g.moves
  THEN [g EXCEPT !.moves = Insert(@, p, c)] ELSE g

room_submit_move(g, p, c) ==
  IF room_submit_accepts(g, p) THEN [g EXCEPT !.moves = Insert(@, p, c)] ELSE g

\* GameRoom::submit_move's result: all players have moved
room_submit_ready(g, p, c) ==
  /\ room_submit_accepts(g, p)
  /\ Cardinality(DOMAIN room_submit_move(g, p, c).moves) = Len(g.players)

\* How calculate_round_result ends: an Err for a wrong player count, a panic
\* when it indexes the moves map with a participant that has no move.
calculate_outcome(g) ==
  IF Len(g.players) # 2 THEN "Err"
  ELSE IF g.players[1] \notin DOMAIN g.moves \/ g.players[2] \notin DOMAIN g.moves
       THEN "Panic"
       ELSE "Ok"

\* mutant: equal moves are not looked for
round_winner_no_draw(g) ==
  IF beats(g.moves[g.players[1]], g.moves[g.players[2]])
  THEN g.players[1] ELSE g.players[2]

\* calculate_round_result's winner (None is a draw), when it ends Ok
round_winner(g) ==
  LET p1_move == g.moves[g.players[1]]
      p2_move == g.moves[g.players[2]]
  IN IF p1_move = p2_move THEN None
     ELSE IF beats(p1_move, p2_move) THEN g.players[1]
     ELSE g.players[2]

\* mutant: a drawn round credits the first-joined participant
update_scores_draw_credited(g) ==
  LET w == IF round_winner(g) = None THEN g.players[1] ELSE round_winner(g)
  IN [g EXCEPT !.scores[w] = @ + 1]

update_scores(g) ==
  LET w == round_winner(g)
  IN IF w = None THEN g ELSE [g EXCEPT !.scores[w] = @ + 1]

\* mutant: the win threshold compared with > in place of >=
should_end_game_late(g) ==
  MaxScore(g.scores) > WinThreshold \/ g.current_round >= max_rounds

should_end_game(g) ==
  MaxScore(g.scores) >= WinThreshold \/ g.current_round >= max_rounds

\* mutant: the moves are cleared but the round is not counted
next_round_uncounted(g) == [g EXCEPT !.moves = EmptyMap]

next_round(g) == [g EXCEPT !.current_round = @ + 1, !.moves = EmptyMap]

end_game(g) == [g EXCEPT !.status = "Finished"]

\* mutant: a shared maximum is broken in favour of one of its holders
determine_final_winner_tiebreak(g) ==
  LET winners == {p \in DOMAIN g.scores : g.scores[p] = MaxScore(g.scores)}
  IN IF winners # {} THEN CHOOSE p \in winners : TRUE ELSE None

determine_final_winner(g) ==
  LET winners == {p \in DOMAIN g.scores : g.scores[p] = MaxScore(g.scores)}
  IN IF Cardinality(winners) = 1 THEN CHOOSE p \in winners : TRUE ELSE None

\* process_round's effect on the room, when calculate_round_result ends Ok
process_round(g) ==
  LET g1 == update_scores(g)
  IN IF should_end_game(g1) THEN end_game(g1) ELSE next_round(g1)

\* Player::send_message: the send fails once the receiver has been dropped
send_message(p) == IF p \in closed THEN "Err" ELSE "Ok"

\* the players of the room a broadcast message reaches
delivered(g) == {p \in SeqRange(g.players) : send_message(p) = "Ok"}

\* mutant: a failed send is returned to the caller
broadcast_until_failure(g) ==
  IF \E p \in SeqRange(g.players) : send_message(p) = "Err" THEN "Err" ELSE "Ok"

\* broadcast_to_all's result: a failed send is logged and the loop goes on
broadcast_to_all(g) == "Ok"

\* A message handed to every player of the room (broadcast_to_all), with the
\* players it reaches
Message(g, type, round, who) ==
  [type |-> type, round |-> round, who |-> who, to |-> delivered(g)]

\* the room process_round leaves when the broadcast of the round's result
\* returns an error (line 101)
process_round_interrupted(g) == update_scores(g)

\* the messages process_round broadcasts, in order
process_round_messages(g) ==
  LET g1 == update_scores(g)
  IN << Message(g, "RoundResult", g.current_round, round_winner(g)),
        IF should_end_game(g1)
        THEN Message(g, "GameEnd", g.current_round, determine_final_winner(g1))
        ELSE Message(g, "NextRound", g.current_round + 1, None) >>


\* ------------------------------------------------------------------ locks
\* mutant: the room's lock is not waited for
room_mutex_free_unchecked(r) == TRUE

\* tokio Mutex of one room: lock().await proceeds once no task holds it
room_mutex_free(r) == room_lock[r] = None

\* tokio Mutex of the waiting queue
queue_mutex_free == queue_lock = None

\* RwLock of the rooms map: write().await proceeds once no reader holds it
rooms_writable == rooms_readers = {}

\* ------------------------------------------------------------ task frames
\* The monitoring task (the REST stats endpoint and the periodic monitor of
\* main.rs) is not a participant.
Monitor == NumPlayers + 1

Result(t, op, val, rid, stats, kind) ==
  [task |-> t, op |-> op, val |-> val, room |-> rid, stats |-> stats, kind |-> kind,
   choice |-> None]
NoStats == <<0, 0, 0>>

\* ret after a step that returned nothing to a caller
NoReturn == Result(None, "none", "none", None, NoStats, "fresh")

\* the task returns to its caller: its locals are dropped
Return(t, op, val, rid) ==
  /\ pc' = [pc EXCEPT ![t] = "idle"]
  /\ waiting_player' = [waiting_player EXCEPT ![t] = None]
  /\ room_id' = [room_id EXCEPT ![t] = None]
  /\ ret' = Result(t, op, val, rid, NoStats, call_kind[t])
  /\ call_kind' = [call_kind EXCEPT ![t] = "fresh"]

\* the task moves on to its next step without returning
Goto(t, label) ==
  /\ pc' = [pc EXCEPT ![t] = label]
  /\ ret' = NoReturn
  /\ UNCHANGED call_kind

\* a caller invokes one more GameManager operation
Call == ops < MaxOps /\ ops' = ops + 1

\* no operation is in flight
Quiescent == stats_pc = "idle" /\ \A t \in Players : pc[t] = "idle"

\* history: calls once the callers were not, or are no longer, taking turns
Untracked == <<[task |-> None, op |-> "untracked"]>>

\* history: task t calls op
Track(t, op) ==
  /\ departed' = IF op = "remove_player" /\ Quiescent THEN t ELSE None
  /\ calls' = IF calls # Untracked /\ Quiescent
              THEN Append(calls, [task |-> t, op |-> op])
              ELSE Untracked

\* GameManager::new: nothing queued, no room
InitEmpty ==
  /\ waiting_queue = <<>>
  /\ rooms = {}
  /\ player_rooms = [p \in Players |-> None]
  /\ next_room = 0
  /\ room = [r \in RoomIds |-> GameRoom_new]
  /\ events = [r \in RoomIds |-> <<>>]
  /\ ret = NoReturn
  /\ calls = <<>>

\* The moves with which the first-joined participant, the second, or nobody
\* (None) wins a round.
MovesWonBy(g, w) ==
  [p \in SeqRange(g.players) |->
     IF w = None THEN "Rock"
     ELSE IF p = w THEN "Rock" ELSE "Scissors"]

\* The room of participants 1 and 2 and its messages after create_match and
\* after rounds won by ws[1], ws[2], ... in turn, as the operations above
\* leave them.
RECURSIVE Played(_)
Played(ws) ==
  IF ws = <<>>
  THEN LET g == add_player(add_player(GameRoom_new, 1), 2)
       IN [g |-> g, log |-> <<Message(g, "GameStart", 0, None)>>]
  ELSE LET prev == Played(SubSeq(ws, 1, Len(ws) - 1))
           g0 == [prev.g EXCEPT !.moves = MovesWonBy(prev.g, ws[Len(ws)])]
       IN [g |-> process_round(g0), log |-> prev.log \o process_round_messages(g0)]

\* the round histories after which a match is still Playing
OpenHistories ==
  {ws \in UNION {[1..n -> {None, 1, 2}] : n \in 0..(max_rounds - 1)} :
     Played(ws).g.status = "Playing"}

\* Participants 1 and 2 are matched (find_match(1), find_match(2) from
\* InitEmpty) and have played some rounds, nobody else has called anything:
\* starting here as well lets the operation budget cover every round of a
\* match.  Spec reaches these states from InitEmpty (MatchedReached below is
\* the first of them).
InitMatched ==
  \E ws \in OpenHistories :
     /\ waiting_queue = <<>>
     /\ rooms = {1}
     /\ player_rooms = [p \in Players |-> IF p \in {1, 2} THEN 1 ELSE None]
     /\ next_room = 1
     /\ room = [r \in RoomIds |-> IF r = 1 THEN Played(ws).g ELSE GameRoom_new]
     /\ events = [r \in RoomIds |-> IF r = 1 THEN Played(ws).log ELSE <<>>]
     /\ ret = NoReturn
     /\ calls = Untracked

Init ==
  /\ closed = {}
  /\ InitEmpty \/ InitMatched
  /\ room_lock = [r \in RoomIds |-> None]
  /\ rooms_readers = {}
  /\ queue_lock = None
  /\ pc = [t \in Players |-> "idle"]
  /\ waiting_player = [t \in Players |-> None]
  /\ room_id = [t \in Players |-> None]
  /\ stats_pc = "idle"
  /\ visited = {}
  /\ active_games = 0
  /\ playing_at_call = 0
  /\ ops = 0
  /\ departed = None
  /\ abandoned_by = [r \in RoomIds |-> None]
  /\ call_kind = [t \in Players |-> "fresh"]

\* --------------------------------------------------- GameManager::find_match
\* Vec::pop: the element taken off the queue and what is left of the queue
queue_pop(q) == q[Len(q)]

\* mutant: the waiting participant is read but left in the queue
queue_after_peek(q) == q

queue_after_pop(q) == SubSeq(q, 1, Len(q) - 1)

\* room ids not yet generated, less those the running create_match calls will take
RoomIdsLeft ==
  MaxRooms - next_room - Cardinality({t \in Players : pc[t] = "create_rooms"})

\* find_match, lines 29-32: lock the queue and pop
find_match(t) ==
  /\ pc[t] = "idle"
  /\ Call
  /\ Track(t, "find_match")
  /\ queue_mutex_free
  /\ IF waiting_queue = <<>>
     THEN /\ Goto(t, "add_to_queue")
          /\ UNCHANGED <<waiting_queue, waiting_player>>
     ELSE /\ RoomIdsLeft > 0
          /\ waiting_player' = [waiting_player EXCEPT ![t] = queue_pop(waiting_queue)]
          /\ waiting_queue' = queue_after_pop(waiting_queue)
          /\ Goto(t, "create_rooms")
  /\ UNCHANGED <<rooms, player_rooms, next_room, sessions, locks, room_id, monitor, abandoned_by>>

\* add_to_queue: lock the queue, push, return "waiting"
add_to_queue(t) ==
  /\ UNCHANGED <<ops, calls, departed>>
  /\ pc[t] = "add_to_queue"
  /\ queue_mutex_free
  /\ waiting_queue' = Append(waiting_queue, t)
  /\ Return(t, "find_match", "waiting", None)
  /\ UNCHANGED <<rooms, player_rooms, next_room, sessions, locks, monitor, abandoned_by>>

\* create_match, lines 42-54: new room with both players, inserted into rooms
create_match_rooms(t) ==
  /\ UNCHANGED <<ops, calls, departed, closed>>
  /\ pc[t] = "create_rooms"
  /\ rooms_writable
  /\ LET r == next_room + 1
     IN /\ next_room' = r
        /\ room' = [room EXCEPT ![r] =
                      add_player(add_player(GameRoom_new, waiting_player[t]), t)]
        /\ rooms' = rooms \cup {r}
        /\ room_id' = [room_id EXCEPT ![t] = r]
  /\ Goto(t, "create_player_rooms")
  /\ UNCHANGED <<waiting_queue, player_rooms, events, locks, waiting_player, monitor, abandoned_by>>

\* create_match, lines 55-59: both participants mapped to the room
create_match_player_rooms(t) ==
  /\ UNCHANGED <<ops, calls, departed>>
  /\ pc[t] = "create_player_rooms"
  /\ player_rooms' = [p \in Players |->
                        IF p \in {waiting_player[t], t} THEN room_id[t]
                        ELSE player_rooms[p]]
  /\ Goto(t, "create_start")
  /\ UNCHANGED <<waiting_queue, rooms, next_room, sessions, locks, waiting_player,
                 room_id, monitor, abandoned_by>>

\* create_match, lines 61-73: lock the room, start_game, return "matched"
create_match_start(t) ==
  /\ UNCHANGED <<ops, calls, departed, closed>>
  /\ pc[t] = "create_start"
  /\ room_mutex_free(room_id[t])
  /\ events' = [events EXCEPT ![room_id[t]] =
                  Append(@, Message(room[room_id[t]], "GameStart", 0, None))]
  /\ Return(t, "find_match", "matched", room_id[t])
  /\ UNCHANGED <<registry, room, locks, monitor, abandoned_by>>

\* -------------------------------------------------- GameManager::submit_move
\* mutant: a caller without a room is answered like one with a room
not_found_accepted == "true"

\* line 104: Ok(false), no room was found for the caller
not_found == "false"

\* t is the participant left behind in a room that its opponent's remove_player
\* took out of rooms before any move was submitted
LeftBehind(t) ==
  \E r \in RoomIds :
    /\ abandoned_by[r] \notin {None, t}
    /\ ~(pc[abandoned_by[r]] = "notify_player_left" /\ room_id[abandoned_by[r]] = r)
    /\ t \in SeqRange(room[r].players)

\* history: what the registry holds for t when t calls submit_move
CallKind(t) ==
  IF ~LeftBehind(t) THEN "fresh"
  ELSE IF player_rooms[t] \in rooms THEN "rematched"
  ELSE "stale"

\* get_player_room, lines 153-156: read the participant's room id
submit_move(t) ==
  /\ pc[t] = "idle"
  /\ Call
  /\ Track(t, "submit_move")
  /\ IF player_rooms[t] = None
     THEN /\ pc' = pc
          /\ ret' = Result(t, "submit_move", not_found, None, NoStats, CallKind(t))
          /\ UNCHANGED <<waiting_player, room_id, call_kind>>
     ELSE /\ room_id' = [room_id EXCEPT ![t] = player_rooms[t]]
          /\ pc' = [pc EXCEPT ![t] = "get_room"]
          /\ call_kind' = [call_kind EXCEPT ![t] = CallKind(t)]
          /\ ret' = NoReturn
          /\ UNCHANGED waiting_player
  /\ UNCHANGED <<registry, sessions, locks, monitor, abandoned_by>>

\* get_player_room, lines 158-160: read the room Arc out of rooms
get_player_room(t) ==
  /\ UNCHANGED <<ops, calls, departed>>
  /\ pc[t] = "get_room"
  /\ IF room_id[t] \in rooms
     THEN /\ Goto(t, "submit")
          /\ UNCHANGED <<waiting_player, room_id>>
     ELSE Return(t, "submit_move", not_found, room_id[t])
  /\ UNCHANGED <<registry, sessions, locks, monitor, abandoned_by>>

\* submit_move, lines 91-94 (and 101 when the round is not ready); c is the
\* call's choice argument, which nothing reads before this step
submit_move_record(t, c) ==
  /\ UNCHANGED <<ops, calls, departed, closed>>
  /\ pc[t] = "submit"
  /\ room_mutex_free(room_id[t])
  /\ room' = [room EXCEPT ![room_id[t]] = room_submit_move(@, t, c)]
  /\ IF room_submit_ready(room[room_id[t]], t, c)
     THEN /\ Goto(t, "lock_process")
          /\ UNCHANGED <<waiting_player, room_id>>
     ELSE Return(t, "submit_move", "true", room_id[t])
  /\ UNCHANGED <<registry, events, locks, monitor, abandoned_by>>

\* submit_move, line 97: take the room's lock again
submit_move_lock(t) ==
  /\ UNCHANGED <<ops, calls, departed>>
  /\ pc[t] = "lock_process"
  /\ room_mutex_free(room_id[t])
  /\ room_lock' = [room_lock EXCEPT ![room_id[t]] = t]
  /\ Goto(t, "process_round")
  /\ UNCHANGED <<registry, sessions, rooms_readers, queue_lock, waiting_player,
                 room_id, monitor, abandoned_by>>

\* mutant: the guard is kept
room_mutex_kept(l, r) == l

\* the MutexGuard of room r goes out of scope
room_mutex_dropped(l, r) == [l EXCEPT ![r] = None]

\* submit_move, lines 98-101: process_round under the lock, which is then dropped
submit_move_process(t) ==
  /\ UNCHANGED <<ops, calls, departed, closed>>
  /\ pc[t] = "process_round"
  /\ LET r == room_id[t]
         g == room[r]
     IN IF calculate_outcome(g) # "Ok"
        THEN /\ UNCHANGED <<room, events>>
             /\ Return(t, "submit_move", calculate_outcome(g), r)
        ELSE IF broadcast_to_all(g) = "Ok"
        THEN /\ room' = [room EXCEPT ![r] = process_round(g)]
             /\ events' = [events EXCEPT ![r] = @ \o process_round_messages(g)]
             /\ Return(t, "submit_move", "true", r)
        ELSE /\ room' = [room EXCEPT ![r] = process_round_interrupted(g)]
             /\ events' = [events EXCEPT ![r] = Append(@, process_round_messages(g)[1])]
             /\ Return(t, "submit_move", "Err", r)
  /\ room_lock' = room_mutex_dropped(room_lock, room_id[t])
  /\ UNCHANGED <<registry, rooms_readers, queue_lock, monitor, abandoned_by>>

\* ------------------------------------------------ GameManager::remove_player
\* history: whether t calls remove_player right after its previous
\* remove_player returned, with no other call in flight since that one was
\* called ("repeated"), and otherwise whether t's session is registered and Finished
DepartureKind(t) ==
  IF departed = t /\ Quiescent
  THEN "repeated"
  ELSE IF player_rooms[t] \in rooms /\ room[player_rooms[t]].status = "Finished"
  THEN "finished" ELSE "fresh"

\* mutant: a participant with no session is an error
no_session_is_error == "Err"

\* lines 120-132: with no entry in player_rooms nothing else is done, Ok(())
no_session == "ok"

\* lines 109-112: queue.retain(|p| p.id != player_id)
remove_player(t) ==
  /\ pc[t] = "idle"
  /\ Call
  /\ Track(t, "remove_player")
  /\ queue_mutex_free
  /\ waiting_queue' = SelectSeq(waiting_queue, LAMBDA p : p # t)
  /\ pc' = [pc EXCEPT ![t] = "remove_player_rooms"]
  /\ call_kind' = [call_kind EXCEPT ![t] = DepartureKind(t)]
  /\ ret' = NoReturn
  /\ UNCHANGED <<rooms, player_rooms, next_room, sessions, locks, waiting_player,
                 room_id, monitor, abandoned_by>>

\* lines 115-118: player_rooms.remove(player_id)
remove_player_rooms(t) ==
  /\ UNCHANGED <<ops, calls, departed>>
  /\ pc[t] = "remove_player_rooms"
  /\ player_rooms' = [player_rooms EXCEPT ![t] = None]
  /\ IF player_rooms[t] = None
     THEN Return(t, "remove_player", no_session, None)
     ELSE /\ room_id' = [room_id EXCEPT ![t] = player_rooms[t]]
          /\ Goto(t, "remove_rooms")
          /\ UNCHANGED waiting_player
  /\ UNCHANGED <<waiting_queue, rooms, next_room, sessions, locks, monitor, abandoned_by>>

\* mutant: the map is emptied
rooms_remove_all(rs, r) == {}

\* mutant: the room is looked up but left in the map
rooms_remove_kept(rs, r) == rs

\* HashMap::remove on the rooms map
rooms_remove(rs, r) == rs \ {r}

\* no move has been submitted in the room yet
NoMoveYet(g) ==
  g.status = "Playing" /\ g.current_round = 1 /\ g.moves = EmptyMap

\* lines 121-124: rooms.remove(&room_id)
remove_rooms(t) ==
  /\ UNCHANGED <<ops, calls, departed>>
  /\ pc[t] = "remove_rooms"
  /\ rooms_writable
  /\ rooms' = rooms_remove(rooms, room_id[t])
  /\ abandoned_by' =
       IF room_id[t] \in rooms /\ NoMoveYet(room[room_id[t]])
       THEN [abandoned_by EXCEPT ![room_id[t]] = t]
       ELSE abandoned_by
  /\ IF room_id[t] \in rooms
     THEN /\ Goto(t, "notify_player_left")
          /\ UNCHANGED <<waiting_player, room_id>>
     ELSE Return(t, "remove_player", "ok", room_id[t])
  /\ UNCHANGED <<waiting_queue, player_rooms, next_room, sessions, locks, monitor>>

\* lines 126-129: lock the room, notify_player_left
notify_player_left(t) ==
  /\ UNCHANGED <<ops, calls, departed, closed>>
  /\ pc[t] = "notify_player_left"
  /\ room_mutex_free(room_id[t])
  /\ events' = [events EXCEPT ![room_id[t]] =
                  Append(@, Message(room[room_id[t]], "PlayerLeft", 0, t))]
  /\ Return(t, "remove_player", "ok", room_id[t])
  /\ UNCHANGED <<registry, room, locks, monitor, abandoned_by>>

\* ---------------------------------------------------- GameManager::get_stats
\* the sessions in rooms whose status is Playing
PlayingSessions == Cardinality({r \in rooms : room[r].status = "Playing"})

\* line 136: read-lock rooms
get_stats ==
  /\ ret' = NoReturn
  /\ stats_pc = "idle"
  /\ Call
  /\ Track(Monitor, "get_stats")
  /\ rooms_readers' = rooms_readers \cup {Monitor}
  /\ stats_pc' = "stats_queue"
  /\ playing_at_call' = PlayingSessions
  /\ UNCHANGED <<registry, sessions, room_lock, queue_lock, locals, visited,
                 active_games, abandoned_by, call_kind>>

\* mutant: every session in rooms is reported as active
get_stats_result_unfiltered(active) ==
  /\ ret' = Result(Monitor, "get_stats", "ok", None,
                   <<Cardinality(rooms), Cardinality(rooms), Len(waiting_queue)>>, "fresh")
  /\ rooms_readers' = rooms_readers \ {Monitor}
  /\ queue_lock' = None
  /\ stats_pc' = "idle"
  /\ visited' = {}
  /\ active_games' = 0
  /\ playing_at_call' = 0

\* lines 139, 147-150: the tuple is returned and both guards are dropped
get_stats_result(active) ==
  /\ ret' = Result(Monitor, "get_stats", "ok", None,
                   <<Cardinality(rooms), active, Len(waiting_queue)>>, "fresh")
  /\ rooms_readers' = rooms_readers \ {Monitor}
  /\ queue_lock' = None
  /\ stats_pc' = "idle"
  /\ visited' = {}
  /\ active_games' = 0
  /\ playing_at_call' = 0

\* line 137: lock the queue (and on to line 149 when the loop has no room to visit)
get_stats_queue ==
  /\ UNCHANGED <<ops, calls, departed>>
  /\ stats_pc = "stats_queue"
  /\ queue_mutex_free
  /\ IF rooms = {}
     THEN get_stats_result(0)
     ELSE /\ queue_lock' = Monitor
          /\ stats_pc' = "stats_rooms"
          /\ ret' = NoReturn
          /\ UNCHANGED <<rooms_readers, visited, active_games, playing_at_call>>
  /\ UNCHANGED <<registry, sessions, room_lock, locals, history>>

\* lines 141-146: one iteration of the loop over rooms.values(); after the
\* last one the function returns
get_stats_room ==
  /\ UNCHANGED <<ops, calls, departed>>
  /\ stats_pc = "stats_rooms"
  /\ \E r \in rooms \ visited :
       /\ room_mutex_free(r)
       /\ LET active == IF room[r].status = "Playing"
                        THEN active_games + 1 ELSE active_games
          IN IF rooms \ visited = {r}
             THEN get_stats_result(active)
             ELSE /\ visited' = visited \cup {r}
                  /\ active_games' = active
                  /\ ret' = NoReturn
                  /\ UNCHANGED <<rooms_readers, queue_lock, stats_pc, playing_at_call>>
  /\ UNCHANGED <<registry, sessions, room_lock, locals, history>>

Next ==
  \/ \E t \in Players :
       \/ find_match(t)
       \/ add_to_queue(t)
       \/ create_match_rooms(t)
       \/ create_match_player_rooms(t)
       \/ create_match_start(t)
       \/ submit_move(t)
       \/ get_player_room(t)
       \/ \E c \in Choices : submit_move_record(t, c)
       \/ submit_move_lock(t)
       \/ submit_move_process(t)
       \/ remove_player(t)
       \/ remove_player_rooms(t)
       \/ remove_rooms(t)
       \/ notify_player_left(t)
  \/ get_stats
  \/ get_stats_queue
  \/ get_stats_room

Spec == Init /\ [][Next]_vars

\* the steps by which task t goes on with the operation it is in
Continue(t) ==
  \/ add_to_queue(t)
  \/ create_match_rooms(t)
  \/ create_match_player_rooms(t)
  \/ create_match_start(t)
  \/ get_player_room(t)
  \/ \E c \in Choices : submit_move_record(t, c)
  \/ submit_move_lock(t)
  \/ submit_move_process(t)
  \/ remove_player_rooms(t)
  \/ remove_rooms(t)
  \/ notify_player_left(t)

\* the steps by which the monitoring task goes on with get_stats
ContinueStats == get_stats_queue \/ get_stats_room

\* the number of operations called in the behaviours checked for liveness
LiveOps == 3

\* The tokio runtime polls every task that can make progress: a task whose
\* next step stays possible takes it.  Callers need not call anything.
FairSpec ==
  /\ Init
  /\ [][Next /\ ops' <= LiveOps]_vars
  /\ \A t \in Players : WF_vars(Continue(t))
  /\ WF_vars(ContinueStats)

\* ====================================================== GameRoom on its own
\* GameRoom is a public type with public methods; the tests of main.rs call
\* them directly.  RoomSpec calls add_player, submit_move and process_round
\* in any order on one room (room 1), which no GameManager operation touches.
\* Every method takes &mut self, so a call is one step.  The GameManager
\* operations above only ever call these methods, each under the room's
\* Mutex, so what holds of every call here holds of every call they make.

\* the rooms the calls start from: a new one, or the room of two participants
\* at the start of any round it can reach
RoomStarts ==
  {[g |-> GameRoom_new, log |-> <<>>]} \cup {Played(ws) : ws \in OpenHistories}

RoomInit ==
  /\ closed = {}
  /\ \E start \in RoomStarts :
       /\ room = [r \in RoomIds |-> IF r = 1 THEN start.g ELSE GameRoom_new]
       /\ events = [r \in RoomIds |-> IF r = 1 THEN start.log ELSE <<>>]
  /\ waiting_queue = <<>>
  /\ rooms = {}
  /\ player_rooms = [p \in Players |-> None]
  /\ next_room = 0
  /\ room_lock = [r \in RoomIds |-> None]
  /\ rooms_readers = {}
  /\ queue_lock = None
  /\ pc = [t \in Players |-> "idle"]
  /\ waiting_player = [t \in Players |-> None]
  /\ room_id = [t \in Players |-> None]
  /\ stats_pc = "idle"
  /\ visited = {}
  /\ active_games = 0
  /\ playing_at_call = 0
  /\ ret = NoReturn
  /\ ops = 0
  /\ departed = None
  /\ abandoned_by = [r \in RoomIds |-> None]
  /\ call_kind = [t \in Players |-> "fresh"]
  /\ calls = Untracked

\* what a GameRoom method leaves alone
RoomFrame == UNCHANGED <<registry, locks, locals, monitor, history, closed>>

\* the bool a GameRoom method returns
Bool(b) == IF b THEN "true" ELSE "false"

\* GameRoom::add_player(p)
GameRoom_add_player(p) ==
  /\ Call
  /\ room' = [room EXCEPT ![1] = add_player(@, p)]
  /\ ret' = Result(p, "add_player", Bool(add_player_accepts(room[1])), 1, NoStats, "fresh")
  /\ UNCHANGED events
  /\ RoomFrame

\* history: whether the room already holds a move of p when p's move is
\* taken
SubmissionKind(g, p) ==
  IF room_submit_accepts(g, p) /\ p \in DOMAIN g.moves THEN "resubmit" ELSE "fresh"

\* GameRoom::submit_move(p, c); ret records the choice submitted
GameRoom_submit_move(p, c) ==
  /\ Call
  /\ room' = [room EXCEPT ![1] = room_submit_move(@, p, c)]
  /\ ret' = [Result(p, "room_submit_move", Bool(room_submit_ready(room[1], p, c)), 1,
                    NoStats, SubmissionKind(room[1], p))
              EXCEPT !.choice = c]
  /\ UNCHANGED events
  /\ RoomFrame

\* GameRoom::process_round()
GameRoom_process_round ==
  /\ Call
  /\ IF calculate_outcome(room[1]) # "Ok"
     THEN /\ UNCHANGED <<room, events>>
          /\ ret' = Result(None, "process_round", calculate_outcome(room[1]), 1,
                           NoStats, "fresh")
     ELSE IF broadcast_to_all(room[1]) = "Ok"
     THEN /\ room' = [room EXCEPT ![1] = process_round(@)]
          /\ events' = [events EXCEPT ![1] = @ \o process_round_messages(room[1])]
          /\ ret' = Result(None, "process_round", "Ok", 1, NoStats, "fresh")
     ELSE /\ room' = [room EXCEPT ![1] = process_round_interrupted(@)]
          /\ events' = [events EXCEPT ![1] = Append(@, process_round_messages(room[1])[1])]
          /\ ret' = Result(None, "process_round", "Err", 1, NoStats, "fresh")
  /\ RoomFrame

\* a participant's connection ends: the task that owns the receiver of its
\* channel ends and drops it, and every later send to the participant fails
sink_closed(p) ==
  /\ p \notin closed
  /\ closed' = closed \cup {p}
  /\ ret' = NoReturn
  /\ UNCHANGED <<registry, room, events, locks, locals, monitor, ops, history>>

RoomNext ==
  \/ \E p \in Players : GameRoom_add_player(p)
  \/ \E p \in Players : \E c \in Choices : GameRoom_submit_move(p, c)
  \/ GameRoom_process_round
  \/ \E p \in Players : sink_closed(p)

RoomSpec == RoomInit /\ [][RoomNext]_vars

\* ------------------------------------------------- a match played in turns
\* GameManager::submit_move(p, c) on the session of participants 1 and 2,
\* run from its call to its return with no other call in between (lines
\* 87-105 with the room found): the move is recorded and, when
\* GameRoom::submit_move says that all have moved, the round is resolved.
\* The calls are not counted, so that a match can be played to its end.
submit_move_in_turn(p, c) ==
  LET g == room_submit_move(room[1], p, c)
      outcome == IF room_submit_ready(room[1], p, c)
                 THEN calculate_outcome(g) ELSE "NotReady"
  IN /\ room' = [room EXCEPT ![1] = IF outcome = "Ok" THEN process_round(g) ELSE g]
     /\ events' = [events EXCEPT ![1] =
                     IF outcome = "Ok" THEN @ \o process_round_messages(g) ELSE @]
     /\ ret' = [Result(p, "submit_move",
                       IF outcome \in {"Ok", "NotReady"} THEN "true" ELSE outcome,
                       1, NoStats, SubmissionKind(room[1], p))
                EXCEPT !.choice = c]
     /\ UNCHANGED <<registry, locks, locals, monitor, history, closed, ops>>

\* a session of two participants that is Playing, at the start of any round
MatchInit == RoomInit /\ room[1].status = "Playing"

MatchNext == \E p \in Players : \E c \in Choices : submit_move_in_turn(p, c)

\* every participant goes on submitting moves
MatchSpec ==
  /\ MatchInit
  /\ [][MatchNext]_vars
  /\ \A p \in Players : WF_vars(\E c \in Choices : submit_move_in_turn(p, c))


\* ================================================================ properties
\* InitMatched's states are states of the program: from InitEmpty,
\* find_match(1) then find_match(2) lead to the first (TLC finds
\* ~MatchedReached violated under Spec), and two submit_move calls lead from
\* each to those of the next round.
MatchedReached ==
  /\ Quiescent
  /\ ops = 2
  /\ rooms = {1}
  /\ waiting_queue = <<>>
  /\ next_room = 1
  /\ player_rooms = [p \in Players |-> IF p \in {1, 2} THEN 1 ELSE None]
  /\ room[1] = add_player(add_player(GameRoom_new, 1), 2)
  /\ events[1] = <<Message(room[1], "GameStart", 0, None)>>

\* the participants of room r
PlayersOf(r) == SeqRange(room[r].players)

\* room ids that were generated (and inserted into rooms on generation)
Created(r) == r <= next_room

\* the messages of a room that report a round: its result, the next round, the end
RoundMessages(r) ==
  SelectSeq(events[r], LAMBDA m : m.type \in {"RoundResult", "NextRound", "GameEnd"})

HasMessage(log, type) == \E i \in DOMAIN log : log[i].type = type

\* tasks executing process_round of room r (they hold the room's lock)
Resolving(r) == {t \in Players : pc[t] = "process_round" /\ room_id[t] = r}

\* ---- C1 --------------------------------------------------------------------
\* C1: for every session, at most one task is executing the resolve-and-advance
\* sequence (process_round) of that session at any time.
C1_OneResolutionInFlight ==
  \A r \in RoomIds : Cardinality(Resolving(r)) <= 1

\* two submissions for the same session race: one is resolving the round while
\* the other, which also saw the round ready, waits for the room's lock
C1_Witness ==
  \E r \in RoomIds : \E t1, t2 \in Players :
    /\ t1 # t2
    /\ pc[t1] = "process_round" /\ room_id[t1] = r
    /\ pc[t2] = "lock_process" /\ room_id[t2] = r

\* ---- C2 --------------------------------------------------------------------
\* C2: whenever find_match pairs the caller with a waiting participant and the
\* queue holds two or more participants, the participant taken is the one
\* that has waited longest (the front of the queue: participants are pushed
\* at the back and retain keeps their order).
C2_PairingIsFifo ==
  [][\A t \in Players :
       (pc[t] = "idle" /\ pc'[t] = "create_rooms" /\ Len(waiting_queue) >= 2)
         => waiting_player'[t] = Head(waiting_queue)]_vars

\* ---- C3 --------------------------------------------------------------------
\* sessions in rooms, not Finished, that p is a participant of
ActiveSessionsOf(p) ==
  {r \in rooms : p \in PlayersOf(r) /\ room[r].status # "Finished"}

\* C3: in every quiescent state a participant has an entry in player_rooms iff
\* it is a participant of exactly one session that is in rooms and not Finished.
C3_MappedIffInOneActiveSession ==
  Quiescent =>
    \A p \in Players :
      (player_rooms[p] # None) <=> (Cardinality(ActiveSessionsOf(p)) = 1)

\* ---- C4 --------------------------------------------------------------------
\* C4: after any sequence of calls (no call in flight), no participant is both
\* in the waiting queue and in player_rooms.
C4_NeverQueuedAndMapped ==
  Quiescent =>
    \A p \in Players :
      ~(p \in SeqRange(waiting_queue) /\ player_rooms[p] # None)

\* ---- C5 --------------------------------------------------------------------
\* C5: when the round resolution of a submit_move call ends the match, then as
\* that call returns the session is Finished, the match-ended message has
\* been broadcast, and both participants' player_rooms entries and the
\* session's rooms entry are gone.
C5_MatchEndDeregisters ==
  [][\A t \in Players :
       LET r == room_id[t]
       IN (/\ pc[t] = "process_round" /\ pc'[t] = "idle"
           /\ room[r].status = "Playing" /\ room'[r].status = "Finished")
          => /\ HasMessage(events'[r], "GameEnd")
             /\ r \notin rooms'
             /\ \A p \in PlayersOf(r) : player_rooms'[p] # r]_vars

\* ---- C6 --------------------------------------------------------------------
\* a task's step that resolves a round of room r (process_round ran to its end)
ResolvesRound(t, r) ==
  /\ pc[t] = "process_round" /\ room_id[t] = r
  /\ calculate_outcome(room[r]) = "Ok"
  /\ pc'[t] = "idle"

\* C6 as claimed: no resolution leaves the session Playing with a score >= 2 or
\* current_round >= max_rounds, and no session becomes Finished while every
\* score is < 2 and current_round < max_rounds.
C6_Original ==
  [][\A r \in RoomIds :
       /\ \A t \in Players :
            (ResolvesRound(t, r) /\ room'[r].status = "Playing")
              => /\ MaxScore(room'[r].scores) < WinThreshold
                 /\ room'[r].current_round < max_rounds
       /\ (room[r].status # "Finished" /\ room'[r].status = "Finished")
            => \/ MaxScore(room'[r].scores) >= WinThreshold
               \/ room'[r].current_round >= max_rounds]_vars

\* C6 as amended: the round counter that decides is the number of the round
\* being resolved.  A resolution of round n leaves the session Playing only
\* with every score < 2 and n < max_rounds (the counter it advances to may
\* equal max_rounds); a session becomes Finished only in a resolution, of a
\* round n, after which a score is >= 2 or with n >= max_rounds.
C6_EndsExactlyAtThresholdOrLastRound ==
  [][\A r \in RoomIds :
       /\ \A t \in Players :
            (ResolvesRound(t, r) /\ room'[r].status = "Playing")
              => /\ MaxScore(room'[r].scores) < WinThreshold
                 /\ room[r].current_round < max_rounds
       /\ (room[r].status # "Finished" /\ room'[r].status = "Finished")
            => /\ \E t \in Players : ResolvesRound(t, r)
               /\ \/ MaxScore(room'[r].scores) >= WinThreshold
                  \/ room[r].current_round >= max_rounds]_vars

\* a match that the round limit ended (no score at the threshold), and a match
\* still Playing in its last round after the resolution of the round before
C6_Witness ==
  /\ \E r \in RoomIds :
       /\ room[r].status = "Finished"
       /\ room[r].current_round = max_rounds
       /\ MaxScore(room[r].scores) < WinThreshold
       /\ HasMessage(events[r], "GameEnd")

\* ---- C7 --------------------------------------------------------------------
\* C7: remove_player(p) for a participant mapped to a session has, when it
\* returns, removed the player_rooms entries of both participants of that
\* session and the session's entry in rooms.
C7_RemoveDeregistersBoth ==
  [][\A t \in Players :
       LET r == room_id[t]
       IN (pc[t] \in {"remove_rooms", "notify_player_left"} /\ pc'[t] = "idle")
          => /\ r \notin rooms'
             /\ \A p \in PlayersOf(r) : player_rooms'[p] # r]_vars

\* ---- C8 --------------------------------------------------------------------
\* C8: once remove_player has removed a session from rooms, no round of that
\* session is resolved: its scores do not change, no round-result, next-round
\* or match-ended message is sent for it, and process_round does not run on
\* it (with or without a missing move).
C8_DepartureCancelsRound ==
  [][\A r \in RoomIds :
       (Created(r) /\ r \notin rooms)
         => /\ room'[r].scores = room[r].scores
            /\ RoundMessages(r)' = RoundMessages(r)
            /\ Resolving(r)' \subseteq Resolving(r)]_vars

\* ---- C9 --------------------------------------------------------------------
\* C9: remove_player sends participant-left exactly when the session it
\* removed is not Finished: none is sent for a session that was already
\* Finished when remove_player was called, and one is sent before the call
\* returns for a session that is not Finished when it is removed.
C9_PlayerLeftIffNotFinished ==
  [][\A t \in Players :
       LET r == room_id[t]
       IN /\ (pc[t] = "notify_player_left" /\ pc'[t] = "idle"
                /\ Len(events'[r]) > Len(events[r]))
              => call_kind[t] # "finished"
          /\ (pc[t] = "remove_rooms" /\ r \in rooms /\ room[r].status # "Finished")
              => pc'[t] # "idle"]_vars

\* ---- C10 -------------------------------------------------------------------
\* room r was taken out of rooms by the remove_player of one participant
\* before any move, and that call has returned
DepartedUnplayed(r) ==
  /\ abandoned_by[r] # None
  /\ ~(pc[abandoned_by[r]] = "notify_player_left" /\ room_id[abandoned_by[r]] = r)

\* P2, left behind in r, was sent participant-left naming the one who departed
LeftNoticeSent(r) ==
  \E i \in DOMAIN events[r] :
    /\ events[r][i].type = "PlayerLeft"
    /\ events[r][i].who = abandoned_by[r]
    /\ PlayersOf(r) \ {abandoned_by[r]} \subseteq events[r][i].to

\* C10 as claimed: after P1's departure before any move, P2 has been sent
\* participant-left naming P1, the session is not in rooms, and every
\* submit_move P2 calls from then on returns false.
C10_Original ==
  /\ \A r \in RoomIds :
       /\ abandoned_by[r] # None => r \notin rooms
       /\ DepartedUnplayed(r) => LeftNoticeSent(r)
  /\ (ret.op = "submit_move" /\ ret.kind \in {"stale", "rematched"})
       => ret.val = "false"

\* C10 as amended: the same, with submit_move returning false for as long as
\* P2 has not been matched into another session (player_rooms does not map P2
\* to a session in rooms when P2 calls).
C10_DepartureBeforeAnyMove ==
  /\ \A r \in RoomIds :
       /\ abandoned_by[r] # None => r \notin rooms
       /\ DepartedUnplayed(r) => LeftNoticeSent(r)
  /\ (ret.op = "submit_move" /\ ret.kind = "stale") => ret.val = "false"

\* P1 departed before any move, P2 was told, and P2's submit_move, called
\* afterwards, has just returned false
C10_Witness ==
  /\ ret.op = "submit_move" /\ ret.kind = "stale" /\ ret.val = "false"
  /\ \E r \in RoomIds :
       /\ DepartedUnplayed(r) /\ LeftNoticeSent(r)
       /\ ret.task \in PlayersOf(r) \ {abandoned_by[r]}
       /\ ret.room = r

\* ---- C11 -------------------------------------------------------------------
\* a call recorded in calls
Turn(t, op) == [task |-> t, op |-> op]

\* C11: on a matchmaker that starts empty, with callers taking turns: the
\* find_match of a first participant P1 returns waiting (no room id); the
\* find_match of a second participant P2 then returns matched with the id of
\* a session; get_stats called after these two returns (1, 1, 0); and
\* get_stats called first of all returns (0, 0, 0).
C11_TwoCallersMatch ==
  /\ \A p1 \in Players :
       (calls = <<Turn(p1, "find_match")>> /\ ret.op = "find_match")
         => ret.task = p1 /\ ret.val = "waiting" /\ ret.room = None
  /\ \A p1, p2 \in Players :
       (p1 # p2 /\ ret.op \in {"find_match", "get_stats"} /\ Len(calls) >= 2
          /\ SubSeq(calls, 1, 2) = <<Turn(p1, "find_match"), Turn(p2, "find_match")>>)
         => /\ Len(calls) = 2
                => /\ ret.task = p2 /\ ret.val = "matched"
                   /\ ret.room \in rooms
                   /\ PlayersOf(ret.room) = {p1, p2}
            /\ (Len(calls) = 3 /\ calls[3] = Turn(Monitor, "get_stats"))
                => ret.stats = <<1, 1, 0>>
  /\ (calls = <<Turn(Monitor, "get_stats")>> /\ ret.op = "get_stats")
       => ret.stats = NoStats

\* P1 then P2 called find_match, and get_stats, called next, has returned
C11_Witness ==
  /\ Len(calls) = 3
  /\ calls[1].op = "find_match" /\ calls[2].op = "find_match"
  /\ calls[1].task # calls[2].task
  /\ calls[3] = Turn(Monitor, "get_stats")
  /\ ret.op = "get_stats" /\ ret.stats = <<1, 1, 0>>

\* ---- C12 -------------------------------------------------------------------
\* the scores a for p1 and b for p2
Scores(p1, a, p2, b) == [p \in {p1, p2} |-> IF p = p1 THEN a ELSE b]

\* the moves a of p1 and b of p2
Moves(p1, a, p2, b) == [p \in {p1, p2} |-> IF p = p1 THEN a ELSE b]

\* this step is a process_round of room 1 that ran to its end
RoundResolved == ret'.op = "process_round" /\ ret'.val = "Ok"

\* the messages this step sent to room 1
Sent == SubSeq(events'[1], Len(events[1]) + 1, Len(events'[1]))

\* the first two rounds of the scenario: resolving round 1, at 0-0, with
\* Rock / Scissors gives the round to P1, the score 1-0 and round 2
FirstRound(g, h, p1, p2) ==
  (/\ g.current_round = 1 /\ g.scores = Scores(p1, 0, p2, 0)
   /\ g.moves = Moves(p1, "Rock", p2, "Scissors"))
  => /\ h.scores = Scores(p1, 1, p2, 0)
     /\ h.status = "Playing" /\ h.current_round = 2
     /\ Sent = << Message(g, "RoundResult", 1, p1),
                  Message(g, "NextRound", 2, None) >>

\* round 2 of the scenario is being resolved: Paper / Rock at 1-0
SecondRound(g, p1, p2) ==
  /\ g.current_round = 2 /\ g.scores = Scores(p1, 1, p2, 0)
  /\ g.moves = Moves(p1, "Paper", p2, "Rock")

\* C12 as claimed: in a match of P1 and P2 (win threshold 2, max_rounds 3):
\* resolving round 1 with Rock / Scissors gives the round to P1 and the score
\* 1-0; resolving round 2, at 1-0, with Paper / Rock gives the round to P2 and
\* the score 1-1; resolving round 3, at 1-1, with Scissors / Scissors is a
\* draw, leaves the score 1-1 and ends the match with no winner.
C12_Original ==
  [][\A p1, p2 \in Players :
       LET g == room[1]
           h == room'[1]
       IN (/\ p1 # p2 /\ g.players = <<p1, p2>> /\ g.status = "Playing"
           /\ RoundResolved)
          => /\ FirstRound(g, h, p1, p2)
             /\ SecondRound(g, p1, p2)
                => /\ h.scores = Scores(p1, 1, p2, 1)
                   /\ h.status = "Playing" /\ h.current_round = 3
                   /\ Sent = << Message(g, "RoundResult", 2, p2),
                                Message(g, "NextRound", 3, None) >>
             /\ (/\ g.current_round = 3 /\ g.scores = Scores(p1, 1, p2, 1)
                 /\ g.moves = Moves(p1, "Scissors", p2, "Scissors"))
                => /\ h.scores = Scores(p1, 1, p2, 1)
                   /\ h.status = "Finished"
                   /\ Sent = << Message(g, "RoundResult", 3, None),
                                Message(g, "GameEnd", 3, None) >>]_vars

\* the match of the scenario after its second round: won 2-0 by P1
WonInTwo(g, p1, p2) ==
  /\ g.players = <<p1, p2>>
  /\ g.status = "Finished" /\ g.current_round = 2
  /\ g.scores = Scores(p1, 2, p2, 0)
  /\ g.moves = Moves(p1, "Paper", p2, "Rock")

\* C12 as amended: round 1 as claimed; resolving round 2, at 1-0, with
\* Paper / Rock gives the round to P1 (Paper beats Rock), the score 2-0, and
\* ends the match with P1 as the winner; no third round is played: a
\* submit_move on the ended match returns false and changes nothing.
C12_PaperBeatsRock ==
  [][\A p1, p2 \in Players :
       LET g == room[1]
           h == room'[1]
       IN /\ (/\ p1 # p2 /\ g.players = <<p1, p2>> /\ g.status = "Playing"
              /\ RoundResolved)
             => /\ FirstRound(g, h, p1, p2)
                /\ SecondRound(g, p1, p2)
                   => /\ WonInTwo(h, p1, p2)
                      /\ Sent = << Message(g, "RoundResult", 2, p1),
                                   Message(g, "GameEnd", 2, p1) >>
          /\ (p1 # p2 /\ WonInTwo(g, p1, p2) /\ ret'.op = "room_submit_move")
             => /\ ret'.val = "false"
                /\ UNCHANGED <<room, events>>]_vars

\* the match of the scenario has ended after round 2, won by P1, and a move
\* submitted for a third round has been refused
C12_Witness ==
  \E p1, p2 \in Players :
    /\ p1 # p2 /\ WonInTwo(room[1], p1, p2)
    /\ ret.op = "room_submit_move" /\ ret.task \in {p1, p2} /\ ret.val = "false"
    /\ RoundMessages(1) = << Message(room[1], "RoundResult", 1, p1),
                             Message(room[1], "NextRound", 2, None),
                             Message(room[1], "RoundResult", 2, p1),
                             Message(room[1], "GameEnd", 2, p1) >>

\* ---- C13 -------------------------------------------------------------------
\* the participants of g whose score no other score of g exceeds
TopScorers(g) ==
  {p \in DOMAIN g.scores : \A q \in DOMAIN g.scores : g.scores[q] <= g.scores[p]}

\* C13: when a round resolution ends the match, the winner the match-ended
\* message reports is the participant whose final score is the unique
\* maximum, and nobody (a draw) when two participants share the maximum.
C13_WinnerIsUniqueMaximum ==
  [][(RoundResolved /\ room'[1].status = "Finished")
       => LET last == Sent[Len(Sent)]
              top == TopScorers(room'[1])
          IN /\ last.type = "GameEnd"
             /\ Cardinality(top) = 1 => last.who \in top
             /\ Cardinality(top) > 1 => last.who = None]_vars

\* a match that has just ended level at 1-1 and was reported as a draw
C13_Witness ==
  /\ ret.op = "process_round" /\ ret.val = "Ok"
  /\ room[1].status = "Finished"
  /\ Cardinality(TopScorers(room[1])) = 2
  /\ MaxScore(room[1].scores) = 1
  /\ events[1][Len(events[1])].type = "GameEnd"
  /\ events[1][Len(events[1])].who = None

\* ---- C14 -------------------------------------------------------------------
\* C14: for all moves a and b that participants have recorded (every pair of
\* Rock, Paper, Scissors is recorded in some state): if a beats b then b does
\* not beat a, and equal moves do not beat each other.
C14_BeatsIsAsymmetric ==
  \A r \in RoomIds : \A p, q \in DOMAIN room[r].moves :
    LET a == room[r].moves[p]
        b == room[r].moves[q]
    IN /\ beats(a, b) => ~beats(b, a)
       /\ a = b => ~beats(a, b)

\* a round in which one recorded move beats the other has been resolved
C14_Witness ==
  \E p, q \in DOMAIN room[1].moves :
    /\ beats(room[1].moves[p], room[1].moves[q])
    /\ ~beats(room[1].moves[q], room[1].moves[p])
    /\ ret.op = "process_round" /\ ret.val = "Ok"
    /\ room[1].status = "Finished"

\* two participants have recorded the moves a and b
AllPairsRecorded(a, b) ==
  \E p, q \in DOMAIN room[1].moves :
    p # q /\ room[1].moves[p] = a /\ room[1].moves[q] = b

\* ---- C15 -------------------------------------------------------------------
\* the cycle Rock > Scissors > Paper > Rock: each symbol defeats the next
Cycle == <<"Rock", "Scissors", "Paper">>
Defeats(a, b) ==
  \E i \in DOMAIN Cycle : Cycle[i] = a /\ Cycle[(i % Len(Cycle)) + 1] = b

\* C15: with m0 the recorded move of the first-joined participant and m1 that
\* of the second, the round winner a resolution reports is the first
\* participant iff m0 defeats m1 in the cycle, the second iff m1 defeats m0,
\* and nobody iff m0 = m1; and each of the recorded symbols beats exactly one
\* symbol and is beaten by exactly one.
C15_WinnerFollowsCycle ==
  [][RoundResolved
       => LET g == room[1]
              m0 == g.moves[g.players[1]]
              m1 == g.moves[g.players[2]]
              winner == Sent[1].who
          IN /\ Sent[1].type = "RoundResult"
             /\ Defeats(m0, m1) <=> (winner = g.players[1] /\ m0 # m1)
             /\ Defeats(m1, m0) <=> (winner = g.players[2] /\ m0 # m1)
             /\ (m0 = m1) <=> (winner = None)
             /\ \A a \in {m0, m1} :
                  /\ Cardinality({b \in Choices : beats(a, b)}) = 1
                  /\ Cardinality({b \in Choices : beats(b, a)}) = 1]_vars

\* a round that the second participant won, and one that was drawn, have been
\* resolved in a match of two participants
C15_Witness ==
  LET g == room[1]
  IN /\ Len(g.players) = 2 /\ g.players[1] # g.players[2]
     /\ ret.op = "process_round" /\ ret.val = "Ok"
     /\ g.status = "Finished"
     /\ g.moves[g.players[1]] = g.moves[g.players[2]]
     /\ \E i \in DOMAIN events[1] :
          events[1][i].type = "RoundResult" /\ events[1][i].who = g.players[2]
     /\ events[1][Len(events[1]) - 1].type = "RoundResult"
     /\ events[1][Len(events[1]) - 1].who = None

\* ---- C16 -------------------------------------------------------------------
\* C16: each round resolution increases the score of the round's winner by
\* exactly 1 and leaves every other participant's score unchanged; a drawn
\* round (no winner) leaves all scores unchanged.
C16_ResolutionScoresWinnerOnly ==
  [][RoundResolved
       => LET winner == Sent[1].who
          IN /\ DOMAIN room'[1].scores = DOMAIN room[1].scores
             /\ \A p \in DOMAIN room[1].scores :
                  room'[1].scores[p] =
                    IF p = winner THEN room[1].scores[p] + 1 ELSE room[1].scores[p]]_vars

\* a drawn round has just been resolved after a round that had a winner: the
\* winner's score is 1, the other's 0
C16_Witness ==
  LET g == room[1]
  IN /\ ret.op = "process_round" /\ ret.val = "Ok"
     /\ Len(g.players) = 2 /\ g.players[1] # g.players[2]
     /\ g.current_round = 3 /\ g.status = "Playing"
     /\ {g.scores[p] : p \in DOMAIN g.scores} = {0, 1}
     /\ events[1][Len(events[1]) - 1].type = "RoundResult"
     /\ events[1][Len(events[1]) - 1].who = None

\* ---- C17 -------------------------------------------------------------------
\* C17: after every round resolution of a session, whether the match then
\* continues or ends, the session's moves map is empty.
C17_MovesClearedAfterResolution ==
  [][\A r \in RoomIds : \A t \in Players :
       ResolvesRound(t, r) => room'[r].moves = EmptyMap]_vars

\* ---- C18 -------------------------------------------------------------------
\* C18: the round counter of a session changes only when a round resolution
\* advances to the next round, which increases it by exactly 1; a resolution
\* that ends the match leaves it unchanged, and so do submit_move and
\* add_player.
C18_RoundCounterOnlyAdvances ==
  [][LET before == room[1].current_round
         after == room'[1].current_round
         advances == RoundResolved /\ Sent[Len(Sent)].type = "NextRound"
         ends == RoundResolved /\ Sent[Len(Sent)].type = "GameEnd"
     IN /\ after # before => advances
        /\ advances => after = before + 1 /\ Sent[Len(Sent)].round = after
        /\ ends => after = before
        /\ ret'.op \in {"room_submit_move", "add_player"} => after = before]_vars

\* a resolution has just advanced the session to its last round
C18_Witness ==
  /\ ret.op = "process_round" /\ ret.val = "Ok"
  /\ room[1].status = "Playing" /\ room[1].current_round = max_rounds
  /\ events[1][Len(events[1])] = Message(room[1], "NextRound", max_rounds, None)

\* ---- C19 -------------------------------------------------------------------
\* a session nobody has joined is as GameRoom::new made it, Waiting with round
\* counter 1, and a session is Playing only with min_players participants or more
JoinedBeforePlaying(g) ==
  /\ g.players = <<>> => (g.status = "Waiting" /\ g.current_round = 1)
  /\ g.status = "Playing" => Len(g.players) >= min_players

\* C19: a session is Waiting with round counter 1 when created and is never
\* Playing with fewer than min_players participants; add_player on a session
\* that holds max_players returns false and changes nothing; an accepted
\* joiner is appended to the players with its score set to 0.
C19_JoinRespectsCapacity ==
  [][/\ JoinedBeforePlaying(room[1]) /\ JoinedBeforePlaying(room'[1])
     /\ ret'.op = "add_player"
          => IF Len(room[1].players) >= max_players
             THEN ret'.val = "false" /\ room' = room
             ELSE /\ ret'.val = "true"
                  /\ room'[1].players = Append(room[1].players, ret'.task)
                  /\ room'[1].scores[ret'.task] = 0]_vars

\* a third participant has just been refused by a session that holds two
C19_Witness ==
  /\ ret.op = "add_player" /\ ret.val = "false"
  /\ Len(room[1].players) = max_players
  /\ ret.task \notin PlayersOf(1)
  /\ ops = max_players + 1

\* ---- C20 -------------------------------------------------------------------
\* C20: GameRoom::submit_move(id, move), as GameManager::submit_move calls it
\* under the room's lock: if the session is not Playing or id is not one of
\* its participants, it returns false and leaves the session unchanged;
\* otherwise it records the move for id (and nothing else) and returns true
\* iff every participant of the session now has a recorded move.  (The
\* caller goes on to lock the room for process_round exactly when it
\* returned true.)
C20_SubmitMoveContract ==
  [][\A t \in Players :
       (pc[t] = "submit" /\ pc'[t] # "submit")
         => LET g == room[room_id[t]]
                h == room'[room_id[t]]
                returned_true == pc'[t] = "lock_process"
            IN IF g.status # "Playing" \/ t \notin SeqRange(g.players)
               THEN ~returned_true /\ h = g
               ELSE /\ DOMAIN h.moves = DOMAIN g.moves \cup {t}
                    /\ h.moves[t] \in Choices
                    /\ \A q \in DOMAIN g.moves \ {t} : h.moves[q] = g.moves[q]
                    /\ h = [g EXCEPT !.moves = h.moves]
                    /\ returned_true <=> (SeqRange(g.players) \subseteq DOMAIN h.moves)]_vars

\* ---- C21 -------------------------------------------------------------------
\* this step is task t calling GameManager::submit_move
CallsSubmitMove(t) ==
  /\ pc[t] = "idle" /\ ops' = ops + 1
  /\ pc'[t] = "get_room" \/ (ret'.op = "submit_move" /\ ret'.task = t)

\* C21: GameManager::submit_move called by a participant that has no session
\* (no entry in player_rooms) returns false at once, not an error or a panic,
\* and leaves the waiting queue, rooms, player_rooms and every session
\* unchanged.
C21_NoSessionReturnsFalse ==
  [][\A t \in Players :
       (CallsSubmitMove(t) /\ player_rooms[t] = None)
         => /\ ret'.op = "submit_move" /\ ret'.task = t /\ ret'.val = "false"
            /\ pc'[t] = "idle"
            /\ UNCHANGED <<registry, sessions>>]_vars

\* a participant waiting in the queue, in no session, has just had its
\* submit_move answered false
C21_Witness ==
  /\ ret.op = "submit_move" /\ ret.val = "false" /\ ret.room = None
  /\ player_rooms[ret.task] = None
  /\ ret.task \in SeqRange(waiting_queue)

\* ---- C22 -------------------------------------------------------------------
\* C22: a move that the session rejects (it is not Playing, or the caller is
\* not one of its participants) is not answered true: when
\* GameRoom::submit_move refuses the move, GameManager::submit_move returns
\* false or an error.
C22_RejectedMoveNotAccepted ==
  [][\A t \in Players :
       (/\ pc[t] = "submit" /\ pc'[t] # "submit"
        /\ ~room_submit_accepts(room[room_id[t]], t))
         => ~(ret'.op = "submit_move" /\ ret'.task = t /\ ret'.val = "true")]_vars

\* ---- C23 -------------------------------------------------------------------
\* C23: Finished is terminal: a step taken while a session is Finished leaves
\* its status Finished and its scores, round counter and participants as
\* they are (the session may only leave rooms); and a status only ever
\* changes from Waiting to Playing or from Playing to Finished.
C23_FinishedIsTerminal ==
  [][\A r \in RoomIds :
       /\ room[r].status = "Finished"
            => /\ room'[r].status = "Finished"
               /\ room'[r].scores = room[r].scores
               /\ room'[r].current_round = room[r].current_round
               /\ room'[r].players = room[r].players
       /\ room'[r].status # room[r].status
            => <<room[r].status, room'[r].status>> \in
                 {<<"Waiting", "Playing">>, <<"Playing", "Finished">>}]_vars

\* ---- C24 -------------------------------------------------------------------
\* C24: no step of get_stats changes the waiting queue, rooms, player_rooms
\* or a session, and the tuple it returns is (the number of sessions in rooms,
\* the number of them that are Playing, the length of the waiting queue).
\* Sessions may end while get_stats visits the rooms: the number of Playing
\* sessions it returns lies between their number when it returns and their
\* number when it was called (the same number when no session ended
\* meanwhile), so a session that was Finished before the call counts toward
\* the total but not toward the active ones.
C24_StatsIsReadOnlySnapshot ==
  [][/\ monitor' # monitor => UNCHANGED <<registry, sessions>>
     /\ ret'.op = "get_stats"
          => /\ ret'.stats[1] = Cardinality(rooms)
             /\ ret'.stats[3] = Len(waiting_queue)
             /\ PlayingSessions' <= ret'.stats[2]
             /\ ret'.stats[2] <= playing_at_call]_vars

\* get_stats has just returned one session, none active, for a registry
\* that holds one Finished session
C24_Witness ==
  /\ ret.op = "get_stats" /\ ret.stats[1] = 1 /\ ret.stats[2] = 0
  /\ \E r \in rooms : room[r].status = "Finished"

\* ---- C25 -------------------------------------------------------------------
\* the task holds the waiting queue's Mutex or a guard of the rooms map
HoldsRegistryLock(task) == queue_lock = task \/ task \in rooms_readers

\* the task is at a lock().await of a room whose Mutex another task holds
WaitsForRoomLock(task) ==
  IF task = Monitor
  THEN /\ stats_pc = "stats_rooms"
       /\ \A r \in rooms \ visited : room_lock[r] # None
  ELSE /\ pc[task] \in {"create_start", "submit", "lock_process", "notify_player_left"}
       /\ room_lock[room_id[task]] # None

\* C25: in no reachable state does a task hold a lock of a registry structure
\* (waiting queue, rooms, player_rooms) while it waits for the lock of a
\* session.
C25_NoRegistryLockWhileWaiting ==
  \A task \in Players \cup {Monitor} :
    ~(HoldsRegistryLock(task) /\ WaitsForRoomLock(task))

\* ---- C26 -------------------------------------------------------------------
\* this step is taken by task t
StepOf(t) == pc'[t] # pc[t] \/ ret'.task = t

\* this step is one of t's submit_move (round resolution included) or of t's
\* remove_player
SessionStepOf(t) ==
  /\ StepOf(t)
  /\ pc[t] \notin {"add_to_queue", "create_rooms", "create_player_rooms", "create_start"}
  /\ pc'[t] \notin {"add_to_queue", "create_rooms"}

\* the session t's operation is performed for
SessionOf(t) == IF room_id[t] # None THEN room_id[t] ELSE player_rooms[t]

\* the steps of submit_move and remove_player that task t can take
SessionNext(t) ==
  \/ get_player_room(t)
  \/ \E c \in Choices : submit_move_record(t, c)
  \/ submit_move_lock(t)
  \/ submit_move_process(t)
  \/ remove_player_rooms(t)
  \/ remove_rooms(t)
  \/ notify_player_left(t)

\* task t, inside a submit_move or a remove_player, can take its next step
\* whenever the lock of its own session is free (or its own) and nobody reads
\* the rooms map: the lock of another session never stops it
OwnLockSuffices(t) ==
  (/\ pc[t] \in {"get_room", "submit", "lock_process", "process_round",
                 "remove_player_rooms", "remove_rooms", "notify_player_left"}
   /\ room_id[t] # None => room_lock[room_id[t]] \in {None, t}
   /\ rooms_writable)
  => ENABLED SessionNext(t)

C27_FailedDeliveryChangesNothing ==
  [][(ret'.op = "process_round" /\ calculate_outcome(room[1]) = "Ok")
       => /\ room'[1] = process_round(room[1])
          /\ ret'.val = "Ok"
          /\ Len(Sent) = 2
          /\ \A i \in DOMAIN Sent : Sent[i].to = PlayersOf(1) \ closed]_vars

\* a round was resolved while the receiver of exactly one participant was
\* gone: the other participant got both messages
C27_Witness ==
  /\ ret.op = "process_round" /\ ret.val = "Ok"
  /\ Cardinality(PlayersOf(1)) = 2
  /\ Cardinality(PlayersOf(1) \cap closed) = 1
  /\ Len(events[1]) >= 2
  /\ \A i \in {Len(events[1]) - 1, Len(events[1])} :
       /\ events[1][i].to = PlayersOf(1) \ closed
       /\ events[1][i].to # {}

\* ---- C28 -------------------------------------------------------------------
\* C28: when a participant calls remove_player again right after its
\* remove_player returned (no other call in flight since the first was
\* called), no step of the second call changes the waiting queue, rooms, player_rooms, any
\* session or the messages sent, and the call returns Ok.
C28_RemovePlayerIsIdempotent ==
  [][\A t \in Players :
       (StepOf(t) /\ "repeated" \in {call_kind[t], call_kind'[t]})
         => /\ UNCHANGED <<registry, sessions>>
            /\ ret'.task = t => (ret'.op = "remove_player" /\ ret'.val = "ok")]_vars

\* a participant left its session, which was told so once, and its second
\* remove_player has returned
C28_Witness ==
  \E t \in Players : \E r \in RoomIds :
    /\ ret.task = t /\ ret.op = "remove_player" /\ ret.kind = "repeated"
    /\ ret.val = "ok"
    /\ t \in PlayersOf(r) /\ r \notin rooms
    /\ Cardinality({i \in DOMAIN events[r] :
                      events[r][i].type = "PlayerLeft" /\ events[r][i].who = t}) = 1

\* ---- C29 -------------------------------------------------------------------
\* C29: in every state, every session has at most as many recorded moves as
\* players, every recorded move is a player's, and the scores map has one
\* entry for each participant in the players list and no other entry.
C29_MovesAndScoresFollowPlayers ==
  \A r \in RoomIds :
    /\ Cardinality(DOMAIN room[r].moves) <= Len(room[r].players)
    /\ DOMAIN room[r].moves \subseteq PlayersOf(r)
    /\ DOMAIN room[r].scores = PlayersOf(r)

\* both participants of a session have a move recorded and a third party's
\* move has just been refused
C29_Witness ==
  /\ ret.op = "room_submit_move" /\ ret.val = "false"
  /\ ret.task \notin PlayersOf(1)
  /\ room[1].status = "Playing"
  /\ Cardinality(PlayersOf(1)) = 2
  /\ DOMAIN room[1].moves = PlayersOf(1)

\* ---- C30 -------------------------------------------------------------------
\* C30: a process_round on a session in which some participant has no
\* recorded move returns an error value and leaves the session's scores,
\* round counter, moves and status as they were.
C30_MissingMoveIsAnError ==
  [][\A t \in Players :
       (/\ pc[t] = "process_round"
        /\ StepOf(t)
        /\ ~(PlayersOf(room_id[t]) \subseteq DOMAIN room[room_id[t]].moves))
         => /\ ret'.val = "Err"
            /\ room'[room_id[t]] = room[room_id[t]]]_vars

\* ---- C31 -------------------------------------------------------------------
\* C31: when submit_move finds that the room id player_rooms holds for its
\* caller is not in rooms, it returns false and the caller's player_rooms
\* entry is gone when it returns.
C31_StaleEntryCleanedUp ==
  [][\A t \in Players :
       (pc[t] = "get_room" /\ StepOf(t) /\ room_id[t] \notin rooms)
         => /\ ret'.task = t /\ ret'.op = "submit_move" /\ ret'.val = "false"
            /\ player_rooms'[t] = None]_vars

\* ---- C32 -------------------------------------------------------------------
\* a GameRoom::submit_move by a participant whose move is already recorded
\* has just returned
Resubmitted == ret'.op = "room_submit_move" /\ ret'.kind = "resubmit"

\* C32: a submit_move by a participant whose move for the round is already
\* recorded replaces that move by the one submitted, changes nothing else
\* and records no further move, and is not ready while the opponent has no
\* move; a recorded move stays as it is until its participant submits again
\* or the round is resolved; and the round is resolved with the moves
\* recorded at that moment.
C32_LastWriteWins ==
  [][/\ Resubmitted =>
          /\ room'[1] = [room[1] EXCEPT !.moves[ret'.task] = ret'.choice]
          /\ DOMAIN room'[1].moves = DOMAIN room[1].moves
          /\ (\E q \in PlayersOf(1) : q \notin DOMAIN room[1].moves)
               => ret'.val = "false"
     /\ \A p \in DOMAIN room[1].moves :
          (~(ret'.op = "room_submit_move" /\ ret'.task = p) /\ ~RoundResolved)
            => (/\ p \in DOMAIN room'[1].moves
                /\ room'[1].moves[p] = room[1].moves[p])
     /\ RoundResolved =>
          Sent[1] = Message(room[1], "RoundResult", room[1].current_round,
                            round_winner(room[1]))]_vars

\* a participant has replaced its move by another while its opponent has
\* not moved: one move is recorded, the one submitted last, and the round is
\* not ready
C32_Witness ==
  /\ ret.op = "room_submit_move" /\ ret.kind = "resubmit" /\ ret.val = "false"
  /\ Cardinality(PlayersOf(1)) = 2
  /\ DOMAIN room[1].moves = {ret.task}
  /\ room[1].moves[ret.task] = ret.choice
  /\ ret.choice = "Paper"

\* ---- C33 -------------------------------------------------------------------
\* the participants waiting or in a session created so far
Requesters ==
  SeqRange(waiting_queue) \cup UNION {PlayersOf(r) : r \in 1..next_room}

\* Every call made so far was a find_match, each by another participant,
\* and all have returned.  Only find_match adds to the queue or creates a
\* session, one call adds one participant to the queue or takes one off it
\* and creates a session of two, so the calls count up to the queue's length
\* plus twice the number of sessions only when each of them was a find_match;
\* and no session has been touched since it was started.
OnlyMatchRequests ==
  /\ Quiescent
  /\ ops = Len(waiting_queue) + 2 * next_room
  /\ Cardinality(Requesters) = ops
  /\ \A r \in 1..next_room :
       r \in rooms /\ NoMoveYet(room[r]) /\ Len(events[r]) = 1

\* C33: once concurrent find_match calls by distinct participants have all
\* returned, with no other call made, at most one participant is waiting.
C33_AtMostOneLeftWaiting ==
  OnlyMatchRequests => Len(waiting_queue) <= 1

\* ---- C34 -------------------------------------------------------------------
\* the positions in room r's messages of those of the given type
MessagesOf(r, type) == {i \in DOMAIN events[r] : events[r][i].type = type}

\* C34: a task holds a session's lock for process_round only while the
\* session is Playing and every participant has a move recorded; no session
\* is sent two RoundResult messages for the same round, nor two GameEnd
\* messages.
C34_EachRoundResolvedOnce ==
  \A r \in RoomIds :
    /\ \A t \in Players :
         (pc[t] = "process_round" /\ room_id[t] = r)
           => /\ room[r].status = "Playing"
              /\ PlayersOf(r) \subseteq DOMAIN room[r].moves
    /\ \A i, j \in MessagesOf(r, "RoundResult") :
         i # j => events[r][i].round # events[r][j].round
    /\ Cardinality(MessagesOf(r, "GameEnd")) <= 1

\* ---- C35 -------------------------------------------------------------------
\* C35: every session create_match has created has two players with
\* different identifiers.
C35_NeverPairedWithItself ==
  \A r \in 1..next_room :
    Len(room[r].players) = 2 => room[r].players[1] # room[r].players[2]

\* ---- C36 -------------------------------------------------------------------
\* the sum of a scores map
RECURSIVE TotalScore(_)
TotalScore(scores) ==
  IF DOMAIN scores = {} THEN 0
  ELSE LET p == CHOOSE q \in DOMAIN scores : TRUE
       IN scores[p] + TotalScore([q \in DOMAIN scores \ {p} |-> scores[q]])

\* the rounds of session r whose result has been sent
RoundsResolved(r) == {events[r][i].round : i \in MessagesOf(r, "RoundResult")}

\* C36: in every session, no score is above the win threshold, the round
\* counter is at most max_rounds, and the scores add up to at most the
\* number of rounds resolved.
C36_ScoresAndRoundsBounded ==
  \A r \in RoomIds :
    /\ \A p \in DOMAIN room[r].scores : room[r].scores[p] <= WinThreshold
    /\ room[r].current_round <= max_rounds
    /\ TotalScore(room[r].scores) <= Cardinality(RoundsResolved(r))

\* ---- C37 -------------------------------------------------------------------
\* every lock that is held is held by a task inside the operation that
\* took it
LocksHeldInFlight ==
  /\ \A r \in RoomIds :
       room_lock[r] # None
         => pc[room_lock[r]] = "process_round" /\ room_id[room_lock[r]] = r
  /\ queue_lock # None => queue_lock = Monitor /\ stats_pc = "stats_rooms"
  /\ rooms_readers # {} => rooms_readers = {Monitor} /\ stats_pc # "idle"

\* C37: under fair scheduling every operation a task has started returns,
\* and a lock is only ever held by a task inside an operation, so that no
\* task waits for a lock for ever.
C37_EveryOperationReturns ==
  /\ []LocksHeldInFlight
  /\ \A t \in Players : (pc[t] # "idle") ~> (pc[t] = "idle")
  /\ (stats_pc # "idle") ~> (stats_pc = "idle")

\* a task waits for a lock another task holds: get_stats holds the queue's
\* Mutex and the read guard of rooms and waits for the lock of the one
\* session, which a submit_move holds for process_round
C37_Witness ==
  /\ HoldsRegistryLock(Monitor) /\ WaitsForRoomLock(Monitor)
  /\ \E t \in Players : pc[t] = "process_round" /\ room_lock[room_id[t]] = t
  /\ ops = LiveOps

C39_NoOrphanedSession ==
  Quiescent => \A r \in rooms : \E p \in Players : player_rooms[p] = r

\* ---- C40 -------------------------------------------------------------------
\* the messages of session r handed to participant p, in order
DeliveredTo(r, p) == SelectSeq(events[r], LAMBDA m : p \in m.to)

\* the messages of a log that tell of rounds' results
ResultsIn(log) == SelectSeq(log, LAMBDA m : m.type = "RoundResult")

\* C40: in the messages a session hands to a participant, GameStart comes
\* before every RoundResult; the RoundResult of round r is followed by
\* NextRound for round r + 1 or by GameEnd; the RoundResult messages carry
\* the rounds 1, 2, ... in turn; and there is at most one GameEnd, after
\* which comes no RoundResult and no NextRound.
C40_EventsInOrder ==
  \A r \in RoomIds : \A p \in PlayersOf(r) :
    LET log == DeliveredTo(r, p)
    IN /\ \A i \in DOMAIN log :
            log[i].type = "RoundResult"
              => /\ \E j \in 1..(i - 1) : log[j].type = "GameStart"
                 /\ i < Len(log)
                 /\ \/ log[i + 1].type = "GameEnd"
                    \/ /\ log[i + 1].type = "NextRound"
                       /\ log[i + 1].round = log[i].round + 1
       /\ \A k \in DOMAIN ResultsIn(log) : ResultsIn(log)[k].round = k
       /\ \A i, j \in DOMAIN log :
            (log[i].type = "GameEnd" /\ i < j)
              => log[j].type \notin {"GameEnd", "RoundResult", "NextRound"}

====
